---- MODULE Spec2Model ----
(***************************************************************************)
(* SceneJS.BoundingBox (src/src/scenejs/boundary/boundingBox.js): a scene  *)
(* node that holds six extents and optional level-of-detail thresholds,    *)
(* memoises its view-space box in three levels and gates the traversal of  *)
(* its children on locality and frustum tests.                             *)
(*                                                                         *)
(* Optional JavaScript values are modelled as sequences of length 0 or 1:  *)
(* <<>> is an absent / null value, <<v>> is the value v.                   *)
(***************************************************************************)
EXTENDS Integers, Sequences, FiniteSets, TLC

(***************************************************************************)
(* Bounds of the model.                                                    *)
(***************************************************************************)
MaxChildren == 4      \* a node has 3..MaxChildren children
MaxSets == 1          \* setter calls made on a node

None == <<>>
Some(v) == <<v>>

\* Values the single-extent setters are called with.
ExtentVals == {1}

(***************************************************************************)
(* Configurations (the params object handed to _init).  The extents are    *)
(* those of the class documentation (-2..2), the origin-anchored unit box,  *)
(* and an object without extents; the levels are those of the class        *)
(* documentation and its prefixes, two lists that are not ascending and    *)
(* unique, and no levels at all.                                           *)
(***************************************************************************)
ParamExtents ==
    { [xmin |-> None, ymin |-> None, zmin |-> None,
       xmax |-> None, ymax |-> None, zmax |-> None],
      [xmin |-> Some(-2), ymin |-> Some(-2), zmin |-> Some(-2),
       xmax |-> Some(2), ymax |-> Some(2), zmax |-> Some(2)] }

ParamLevels ==
    { None, Some(<<10, 10, 20>>), Some(<<20, 10, 30>>),
      Some(<<10, 200, 400>>), Some(<<10, 200, 400, 600>>) }

Params ==
    { [xmin |-> e.xmin, ymin |-> e.ymin, zmin |-> e.zmin,
       xmax |-> e.xmax, ymax |-> e.ymax, zmax |-> e.zmax,
       levels |-> l] : e \in ParamExtents, l \in ParamLevels }

\* Stands for the params when none are read.
NoParams ==
    [xmin |-> None, ymin |-> None, zmin |-> None,
     xmax |-> None, ymax |-> None, zmax |-> None, levels |-> None]

\* Arguments of setBoundary: an object with some fields absent or 0.
Boundaries ==
    { [xmin |-> Some(0), ymin |-> None, zmin |-> Some(-1),
       xmax |-> Some(1), ymax |-> Some(3), zmax |-> None] }

(***************************************************************************)
(* The collaborators' answers during one traversal.                        *)
(***************************************************************************)
\* Column-major 4x4 matrices, as SceneJS stores them.
MatIdentity == << 1,0,0,0,  0,1,0,0,  0,0,1,0,  0,0,0,1 >>
MatScaleTranslate == << 2,0,0,0,  0,2,0,0,  0,0,2,0,  1,0,0,1 >>

\* SceneJS_modelTransformModule.getTransform(): { matrix, identity, fixed }.
\* A transform flagged identity carries the identity matrix.
Transforms ==
    { [matrix |-> MatIdentity, identity |-> TRUE, fixed |-> f] : f \in BOOLEAN }
    \cup
    { [matrix |-> MatScaleTranslate, identity |-> FALSE, fixed |-> f] :
          f \in BOOLEAN }

SceneJS_math_INTERSECT_FRUSTUM == "INTERSECT_FRUSTUM"
SceneJS_math_INSIDE_FRUSTUM == "INSIDE_FRUSTUM"
SceneJS_math_OUTSIDE_FRUSTUM == "OUTSIDE_FRUSTUM"
FrustumResults ==
    { SceneJS_math_INTERSECT_FRUSTUM, SceneJS_math_INSIDE_FRUSTUM,
      SceneJS_math_OUTSIDE_FRUSTUM }

\* SceneJS_frustumModule.getProjectedSize answers.
Sizes == {5, 250, 600}

(***************************************************************************)
(* Math primitives.                                                        *)
(***************************************************************************)
Min2(a, b) == IF a <= b THEN a ELSE b
Max2(a, b) == IF a >= b THEN a ELSE b

SceneJS_math_transformPoint3(m, p) ==
    << m[1] * p[1] + m[5] * p[2] + m[9] * p[3] + m[13],
       m[2] * p[1] + m[6] * p[2] + m[10] * p[3] + m[14],
       m[3] * p[1] + m[7] * p[2] + m[11] * p[3] + m[15] >>

SceneJS_math_transformPoints3(m, points) ==
    [i \in 1 .. Len(points) |-> SceneJS_math_transformPoint3(m, points[i])]

RECURSIVE MinCoord(_, _, _)
MinCoord(points, k, n) ==
    IF n = 1 THEN points[1][k]
    ELSE Min2(MinCoord(points, k, n - 1), points[n][k])

RECURSIVE MaxCoord(_, _, _)
MaxCoord(points, k, n) ==
    IF n = 1 THEN points[1][k]
    ELSE Max2(MaxCoord(points, k, n - 1), points[n][k])

\* new SceneJS_math_Box3().fromPoints(points)
SceneJS_math_Box3_fromPoints(points) ==
    [min |-> [k \in 1 .. 3 |-> MinCoord(points, k, Len(points))],
     max |-> [k \in 1 .. 3 |-> MaxCoord(points, k, Len(points))]]

(***************************************************************************)
(* State of one SceneJS.BoundingBox node.                                  *)
(***************************************************************************)
VARIABLES
    pc,             \* "new" (fields initialised), "ready", "failed"
    fixedParams,    \* Node._fixedParams
    children,       \* Node._children.length
    xmin, ymin, zmin, xmax, ymax, zmax,
    levels,         \* None (null) or Some(sequence of thresholds)
    objectCoords,   \* None (undefined / null) or Some(eight points)
    viewBox,        \* None (null) or Some([min, max])
    memoLevel,      \* 0, 1, 2
    sets,           \* setter calls made so far (bounded by MaxSets)
    last            \* what the last operation did (see NoCall)

node == << fixedParams, children, xmin, ymin, zmin, xmax, ymax, zmax,
           levels, objectCoords, viewBox, memoLevel >>
vars == << pc, fixedParams, children, xmin, ymin, zmin, xmax, ymax, zmax,
           levels, objectCoords, viewBox, memoLevel, sets, last >>


(***************************************************************************)
(* What the last operation did: the state of the transform and instancing  *)
(* modules during it, the answers it got from the locality and frustum     *)
(* modules, and the statements it reached.                                 *)
(***************************************************************************)
NoTransform == [matrix |-> MatIdentity, identity |-> TRUE, fixed |-> TRUE]

NoCall(name) ==
    [op |-> name,
     error |-> "none",          \* exception that ended the operation
     init |-> FALSE,            \* _init(_getParams(data)) was called
     params |-> None,           \* the params handed to _init, if called
     coordsBuilt |-> FALSE,     \* the eight object-space corners were built
     boxDirect |-> FALSE,       \* the view box was taken from the extents
     boxFromPoints |-> FALSE,   \* the view box was rebuilt from the corners
     transform |-> NoTransform, \* the model transform during the operation
     instancing |-> FALSE,      \* whether instancing was active during it
     outer |-> None,            \* testAxisBoxIntersectOuterRadius answer
     inner |-> None,            \* testAxisBoxIntersectInnerRadius answer
     frustum |-> None,          \* testAxisBoxIntersection answer
     size |-> None,             \* getProjectedSize answer
     lod |-> FALSE,             \* the level-of-detail branch was taken
     rendered |-> <<>>]         \* child indices traversed, in order

ConfigMismatch == "ConfigMismatch"
ConfigOrder == "ConfigOrder"
TypeError == "TypeError"

\* SceneJS_errorModule.fatalError raises: the statements after it do not run.
FatalErrorThrows == TRUE

\* SceneJS.Node sets this._memoLevel when the node is created.
NodeMemoLevel == 0

(***************************************************************************)
(* _init(params), lines 259-280.                                           *)
(***************************************************************************)
\* params.f || 0
OrZero(f) == IF f = None THEN 0 ELSE IF f[1] = 0 THEN 0 ELSE f[1]

LevelsError_ignoresLength(l, nchildren) ==
    IF \E i \in 2 .. Len(l) : l[i - 1] >= l[i] THEN ConfigOrder
    ELSE "none"

LevelsError_allowsEqual(l, nchildren) ==
    IF Len(l) # nchildren THEN ConfigMismatch
    ELSE IF \E i \in 2 .. Len(l) : l[i - 1] > l[i] THEN ConfigOrder
    ELSE "none"

\* The first fatal error _init raises on params.levels, "none" if there is none.
LevelsError(l, nchildren) ==
    IF Len(l) # nchildren THEN ConfigMismatch
    ELSE IF \E i \in 2 .. Len(l) : l[i - 1] >= l[i] THEN ConfigOrder
    ELSE "none"

_init(params, nchildren, oldLevels) ==
    LET err == IF params.levels = None THEN "none"
               ELSE LevelsError(params.levels[1], nchildren)
        thrown == err # "none" /\ FatalErrorThrows
    IN  [xmin |-> OrZero(params.xmin), ymin |-> OrZero(params.ymin),
         zmin |-> OrZero(params.zmin), xmax |-> OrZero(params.xmax),
         ymax |-> OrZero(params.ymax), zmax |-> OrZero(params.zmax),
         levels |-> IF params.levels = None \/ thrown THEN oldLevels
                    ELSE params.levels,
         error |-> err,
         thrown |-> thrown]

(***************************************************************************)
(* Construction.  Init is the node after SceneJS.Node.apply and the field  *)
(* initialisers of lines 74-84; BoundingBox is lines 85-87.                *)
(***************************************************************************)
Init ==
    /\ pc = "new"
    /\ fixedParams \in BOOLEAN
    /\ children \in 3 .. MaxChildren
    /\ xmin = 0 /\ ymin = 0 /\ zmin = 0
    /\ xmax = 0 /\ ymax = 0 /\ zmax = 0
    /\ levels = None
    /\ objectCoords = None   \* line 83 initialises _objectsCoords, not this field
    /\ viewBox = None
    /\ memoLevel = NodeMemoLevel
    /\ sets = 0
    /\ last = NoCall("new")

BoundingBox ==
    /\ pc = "new"
    /\ \E params \in Params :
         LET r == _init(params, children, levels) IN
         IF fixedParams
         THEN /\ xmin' = r.xmin /\ ymin' = r.ymin /\ zmin' = r.zmin
              /\ xmax' = r.xmax /\ ymax' = r.ymax /\ zmax' = r.zmax
              /\ levels' = r.levels
              /\ pc' = IF r.thrown THEN "failed" ELSE "ready"
              /\ last' = [NoCall("BoundingBox") EXCEPT
                             !.init = TRUE,
                             !.params = Some(params),
                             !.error = IF r.thrown THEN r.error ELSE "none"]
         ELSE /\ UNCHANGED << xmin, ymin, zmin, xmax, ymax, zmax, levels >>
              /\ pc' = "ready"
              /\ last' = NoCall("BoundingBox")
    /\ UNCHANGED << fixedParams, children, objectCoords, viewBox, memoLevel, sets >>

(***************************************************************************)
(* The setters, lines 99-240.                                              *)
(***************************************************************************)
Callable == pc = "ready"

setXMin_keepsMemoLevel ==
    /\ Callable /\ sets < MaxSets
    /\ \E v \in ExtentVals : xmin' = v
    /\ sets' = sets + 1
    /\ last' = NoCall("setXMin")
    /\ UNCHANGED << pc, fixedParams, children, ymin, zmin, xmax, ymax, zmax,
                    levels, objectCoords, viewBox, memoLevel >>

setXMin ==
    /\ Callable /\ sets < MaxSets
    /\ \E v \in ExtentVals : xmin' = v
    /\ memoLevel' = 0
    /\ sets' = sets + 1
    /\ last' = NoCall("setXMin")
    /\ UNCHANGED << pc, fixedParams, children, ymin, zmin, xmax, ymax, zmax,
                    levels, objectCoords, viewBox >>

setYMin ==
    /\ Callable /\ sets < MaxSets
    /\ \E v \in ExtentVals : ymin' = v
    /\ memoLevel' = 0
    /\ sets' = sets + 1
    /\ last' = NoCall("setYMin")
    /\ UNCHANGED << pc, fixedParams, children, xmin, zmin, xmax, ymax, zmax,
                    levels, objectCoords, viewBox >>

setZMin_keepsMemoLevel ==
    /\ Callable /\ sets < MaxSets
    /\ \E v \in ExtentVals : zmin' = v
    /\ sets' = sets + 1
    /\ last' = NoCall("setZMin")
    /\ UNCHANGED << pc, fixedParams, children, xmin, ymin, xmax, ymax, zmax,
                    levels, objectCoords, viewBox, memoLevel >>

setZMin ==
    /\ Callable /\ sets < MaxSets
    /\ \E v \in ExtentVals : zmin' = v
    /\ memoLevel' = 0
    /\ sets' = sets + 1
    /\ last' = NoCall("setZMin")
    /\ UNCHANGED << pc, fixedParams, children, xmin, ymin, xmax, ymax, zmax,
                    levels, objectCoords, viewBox >>

setXMax ==
    /\ Callable /\ sets < MaxSets
    /\ \E v \in ExtentVals : xmax' = v
    /\ memoLevel' = 0
    /\ sets' = sets + 1
    /\ last' = NoCall("setXMax")
    /\ UNCHANGED << pc, fixedParams, children, xmin, ymin, zmin, ymax, zmax,
                    levels, objectCoords, viewBox >>

setYMax_clearsViewBox ==
    /\ Callable /\ sets < MaxSets
    /\ \E v \in ExtentVals : ymax' = v
    /\ memoLevel' = 0
    /\ viewBox' = None
    /\ sets' = sets + 1
    /\ last' = NoCall("setYMax")
    /\ UNCHANGED << pc, fixedParams, children, xmin, ymin, zmin, xmax, zmax,
                    levels, objectCoords >>

setYMax ==
    /\ Callable /\ sets < MaxSets
    /\ \E v \in ExtentVals : ymax' = v
    /\ memoLevel' = 0
    /\ sets' = sets + 1
    /\ last' = NoCall("setYMax")
    /\ UNCHANGED << pc, fixedParams, children, xmin, ymin, zmin, xmax, zmax,
                    levels, objectCoords, viewBox >>

setZMax ==
    /\ Callable /\ sets < MaxSets
    /\ \E v \in ExtentVals : zmax' = v
    /\ memoLevel' = 0
    /\ sets' = sets + 1
    /\ last' = NoCall("setZMax")
    /\ UNCHANGED << pc, fixedParams, children, xmin, ymin, zmin, xmax, ymax,
                    levels, objectCoords, viewBox >>

setBoundary_keepsMemoLevel ==
    /\ Callable /\ sets < MaxSets
    /\ \E boundary \in Boundaries :
         /\ xmin' = OrZero(boundary.xmin)
         /\ ymin' = OrZero(boundary.ymin)
         /\ zmin' = OrZero(boundary.zmin)
         /\ xmax' = OrZero(boundary.xmax)
         /\ ymax' = OrZero(boundary.ymax)
         /\ zmax' = OrZero(boundary.zmax)
    /\ sets' = sets + 1
    /\ last' = NoCall("setBoundary")
    /\ UNCHANGED << pc, fixedParams, children, levels, objectCoords, viewBox,
                    memoLevel >>

setBoundary ==
    /\ Callable /\ sets < MaxSets
    /\ \E boundary \in Boundaries :
         /\ xmin' = OrZero(boundary.xmin)
         /\ ymin' = OrZero(boundary.ymin)
         /\ zmin' = OrZero(boundary.zmin)
         /\ xmax' = OrZero(boundary.xmax)
         /\ ymax' = OrZero(boundary.ymax)
         /\ zmax' = OrZero(boundary.zmax)
    /\ memoLevel' = 0
    /\ sets' = sets + 1
    /\ last' = NoCall("setBoundary")
    /\ UNCHANGED << pc, fixedParams, children, levels, objectCoords, viewBox >>


(***************************************************************************)
(* _render(traversalContext, data), lines 283-362.                         *)
(***************************************************************************)
\* Lines 295-304: the eight object-space corners of the extents e.
ObjectCoords(e) ==
    << << e.xmin, e.ymin, e.zmin >>, << e.xmax, e.ymin, e.zmin >>,
       << e.xmax, e.ymax, e.zmin >>, << e.xmin, e.ymax, e.zmin >>,
       << e.xmin, e.ymin, e.zmax >>, << e.xmax, e.ymin, e.zmax >>,
       << e.xmax, e.ymax, e.zmax >>, << e.xmin, e.ymax, e.zmax >> >>

ExtentsBox_fromCorners(e) ==
    [min |-> << Min2(e.xmin, e.xmax), Min2(e.ymin, e.ymax), Min2(e.zmin, e.zmax) >>,
     max |-> << Max2(e.xmin, e.xmax), Max2(e.ymin, e.ymax), Max2(e.zmin, e.zmax) >>]

\* Lines 309-312: the view box taken from the extents e.
ExtentsBox(e) ==
    [min |-> << e.xmin, e.ymin, e.zmin >>, max |-> << e.xmax, e.ymax, e.zmax >>]

\* Lines 319-323: the view box of the corners under the matrix m.
TransformedBox(m, coords) ==
    SceneJS_math_Box3_fromPoints(SceneJS_math_transformPoints3(m, coords))

\* Line 317: the view box is rebuilt from the corners below memo level 2.
NeedsBox_always(level) == level <= 2

NeedsBox_never(level) == level < 0

NeedsBox(level) == level < 2

CanMemoizeBox_ignoresInstancing(t, level, instancing) ==
    t.fixed /\ level = 1

CanMemoizeBox_ignoresFixed(t, level, instancing) ==
    level = 1 /\ ~instancing

CanMemoizeBox_whenInstancing(t, level, instancing) ==
    t.fixed /\ level = 1 /\ instancing

\* Line 324: the condition under which the view box is kept for good.
CanMemoizeBox(t, level, instancing) ==
    t.fixed /\ level = 1 /\ ~instancing

RECURSIVE SelectLevel_strictlyBelow(_, _, _)
SelectLevel_strictlyBelow(lv, size, i) ==
    IF i < 0 THEN -1
    ELSE IF lv[i + 1] < size THEN i
    ELSE SelectLevel_strictlyBelow(lv, size, i - 1)

\* Lines 337-343: scan the levels from the last to the first and stop at the
\* first one that is not above size; -1 when the loop ends without a child.
RECURSIVE SelectLevel(_, _, _)
SelectLevel(lv, size, i) ==
    IF i < 0 THEN -1
    ELSE IF lv[i + 1] <= size THEN i
    ELSE SelectLevel(lv, size, i - 1)

\* _renderNodes: every child, in order.
RenderNodes(nchildren) == [i \in 1 .. nchildren |-> i - 1]

\* The answers the locality and frustum modules give during lines 329-361.
\* A test that is not reached is not called and has no answer (None); the
\* projected size is asked for only in the level-of-detail branch.
GateAnswers(lv) ==
    { [outer |-> Some(FALSE), inner |-> None, frustum |-> None, size |-> None] }
    \cup
    { [outer |-> Some(TRUE), inner |-> Some(FALSE), frustum |-> None,
       size |-> None] }
    \cup
    { [outer |-> Some(TRUE), inner |-> Some(TRUE),
       frustum |-> Some(SceneJS_math_OUTSIDE_FRUSTUM), size |-> None] }
    \cup
    { [outer |-> Some(TRUE), inner |-> Some(TRUE), frustum |-> Some(f),
       size |-> z] :
          f \in {SceneJS_math_INTERSECT_FRUSTUM, SceneJS_math_INSIDE_FRUSTUM},
          z \in IF lv # None THEN {Some(n) : n \in Sizes} ELSE {None} }

Gate_ignoresFrustum(lv, nchildren, a) ==
    IF a.outer = Some(TRUE)
    THEN IF a.inner = Some(TRUE)
         THEN IF lv # None /\ a.size # None
              THEN LET i == SelectLevel(lv[1], a.size[1], Len(lv[1]) - 1)
                   IN  [lod |-> TRUE,
                        rendered |-> IF i >= 0 THEN << i >> ELSE <<>>]
              ELSE [lod |-> FALSE, rendered |-> RenderNodes(nchildren)]
         ELSE [lod |-> FALSE, rendered |-> RenderNodes(nchildren)]
    ELSE [lod |-> FALSE, rendered |-> <<>>]

Gate_stagesOutside(lv, nchildren, a) ==
    IF a.outer = Some(TRUE) /\ a.inner = Some(TRUE)
    THEN IF a.frustum \in {Some(SceneJS_math_INTERSECT_FRUSTUM),
                           Some(SceneJS_math_INSIDE_FRUSTUM)}
         THEN IF lv # None
              THEN LET i == SelectLevel(lv[1], a.size[1], Len(lv[1]) - 1)
                   IN  [lod |-> TRUE,
                        rendered |-> IF i >= 0 THEN << i >> ELSE <<>>]
              ELSE [lod |-> FALSE, rendered |-> RenderNodes(nchildren)]
         ELSE [lod |-> FALSE, rendered |-> <<>>]
    ELSE [lod |-> FALSE, rendered |-> RenderNodes(nchildren)]

Gate_cullsStaged(lv, nchildren, a) ==
    IF a.outer = Some(TRUE) /\ a.inner = Some(TRUE)
    THEN IF a.frustum \in {Some(SceneJS_math_INTERSECT_FRUSTUM),
                           Some(SceneJS_math_INSIDE_FRUSTUM)}
         THEN IF lv # None
              THEN LET i == SelectLevel(lv[1], a.size[1], Len(lv[1]) - 1)
                   IN  [lod |-> TRUE,
                        rendered |-> IF i >= 0 THEN << i >> ELSE <<>>]
              ELSE [lod |-> FALSE, rendered |-> RenderNodes(nchildren)]
         ELSE [lod |-> FALSE, rendered |-> <<>>]
    ELSE [lod |-> FALSE, rendered |-> <<>>]

\* Lines 329-361: which children are traversed under the answers a.  lod tells
\* whether the level-of-detail branch (lines 336-343) ran.
Gate(lv, nchildren, a) ==
    IF a.outer = Some(TRUE)
    THEN IF a.inner = Some(TRUE)
         THEN IF a.frustum \in {Some(SceneJS_math_INTERSECT_FRUSTUM),
                                Some(SceneJS_math_INSIDE_FRUSTUM)}
              THEN IF lv # None
                   THEN LET i == SelectLevel(lv[1], a.size[1], Len(lv[1]) - 1)
                        IN  [lod |-> TRUE,
                             rendered |-> IF i >= 0 THEN << i >> ELSE <<>>]
                   ELSE [lod |-> FALSE, rendered |-> RenderNodes(nchildren)]
              ELSE [lod |-> FALSE, rendered |-> <<>>]
         ELSE [lod |-> FALSE, rendered |-> RenderNodes(nchildren)]
    ELSE [lod |-> FALSE, rendered |-> <<>>]

Extents == [xmin |-> xmin, ymin |-> ymin, zmin |-> zmin,
            xmax |-> xmax, ymax |-> ymax, zmax |-> zmax]

\* Lines 284-289: a node without fixed params re-reads them while the memo
\* level is 0; a node with fixed params moves to memo level 1.
ReadsParams == memoLevel = 0 /\ ~fixedParams

MarkInitialized_never(level, fixed) == level

\* Lines 284-289: the memo level after them.
MarkInitialized(level, fixed) == IF level = 0 /\ fixed THEN 1 ELSE level

_render ==
    /\ Callable
    /\ \E t \in Transforms, instancing \in BOOLEAN,
          params \in IF ReadsParams THEN Params ELSE {NoParams} :
         LET \* lines 284-289
             r == _init(params, children, levels)
             thrown == ReadsParams /\ r.thrown
             e == IF ReadsParams THEN r ELSE Extents
             lv == IF ReadsParams THEN r.levels ELSE levels
             m1 == MarkInitialized(memoLevel, fixedParams)
             \* lines 290-315
             build == memoLevel = 0 /\ ~t.identity
             direct == memoLevel = 0 /\ t.identity
             oc1 == IF build THEN Some(ObjectCoords(e)) ELSE objectCoords
             vb1 == IF direct THEN Some(ExtentsBox(e)) ELSE viewBox
             m2 == IF direct THEN 2 ELSE m1
             \* lines 317-328
             recompute == NeedsBox(m2)
             noCoords == recompute /\ oc1 = None
             vb2 == IF recompute /\ ~noCoords
                    THEN Some(TransformedBox(t.matrix, oc1[1])) ELSE vb1
             memoize == recompute /\ ~noCoords
                        /\ CanMemoizeBox(t, m2, instancing)
             oc2 == IF memoize THEN None ELSE oc1
             m3 == IF memoize THEN 2 ELSE m2
             noBox == ~noCoords /\ vb2 = None
             answers == [NoCall("_render") EXCEPT
                            !.init = ReadsParams,
                            !.params = IF ReadsParams THEN Some(params) ELSE None,
                            !.transform = t, !.instancing = instancing]
         IN  IF thrown
             THEN \* _init raised: nothing after line 286 runs
                  /\ xmin' = r.xmin /\ ymin' = r.ymin /\ zmin' = r.zmin
                  /\ xmax' = r.xmax /\ ymax' = r.ymax /\ zmax' = r.zmax
                  /\ levels' = r.levels
                  /\ UNCHANGED << objectCoords, viewBox, memoLevel >>
                  /\ last' = [answers EXCEPT !.error = r.error]
             ELSE /\ xmin' = e.xmin /\ ymin' = e.ymin /\ zmin' = e.zmin
                  /\ xmax' = e.xmax /\ ymax' = e.ymax /\ zmax' = e.zmax
                  /\ levels' = lv
                  /\ objectCoords' = IF noCoords THEN oc1 ELSE oc2
                  /\ viewBox' = vb2
                  /\ memoLevel' = IF noCoords THEN m2 ELSE m3
                  /\ IF noCoords \/ noBox
                     THEN \* transforming absent corners or testing an absent
                          \* box raises
                          last' = [answers EXCEPT
                                      !.coordsBuilt = build,
                                      !.boxDirect = direct,
                                      !.error = TypeError]
                     ELSE \* lines 329-361
                          \E a \in GateAnswers(lv) :
                            LET g == Gate(lv, children, a) IN
                            last' = [answers EXCEPT
                                        !.coordsBuilt = build,
                                        !.boxDirect = direct,
                                        !.boxFromPoints = recompute,
                                        !.outer = a.outer, !.inner = a.inner,
                                        !.frustum = a.frustum, !.size = a.size,
                                        !.lod = g.lod,
                                        !.rendered = g.rendered]
    /\ UNCHANGED << pc, fixedParams, children, sets >>

Next ==
    \/ BoundingBox
    \/ setXMin \/ setYMin \/ setZMin
    \/ setXMax \/ setYMax \/ setZMax
    \/ setBoundary
    \/ _render

Spec == Init /\ [][Next]_vars


(***************************************************************************)
(* Properties.                                                             *)
(***************************************************************************)
UNINITIALIZED == 0
PARTIAL == 1
FULL == 2

SetterOps == {"setXMin", "setYMin", "setZMin", "setXMax", "setYMax", "setZMax",
              "setBoundary"}

\* A step that is a call of one of the seven setters.
SetterStep == pc = "ready" /\ sets' = sets + 1 /\ last'.op \in SetterOps

\* A step that is a traversal (_render) of the constructed node.
RenderStep == pc = "ready" /\ sets' = sets /\ last'.op = "_render"

\* A traversal that ran to its end (no exception ended it).
Completed(l) == l.op = "_render" /\ l.error = "none"

Matrices == {t.matrix : t \in Transforms}

\* C1: whatever the memo level is (0, 1 or 2), every call of one of the seven
\* setters leaves the memo level at UNINITIALIZED (0).
C1_SettersResetMemoLevel ==
    [][SetterStep => memoLevel' = UNINITIALIZED]_vars

\* A setter was called on a node whose box was memoised at level 2 (box kept,
\* corners discarded), and the memo level is back at 0.
C1_Witness ==
    /\ last.op \in SetterOps
    /\ memoLevel = UNINITIALIZED
    /\ viewBox # None /\ objectCoords = None

AppliedLevels == last.init /\ last.params # None /\ last.params[1].levels # None

NotAscending(l) == \E i \in 2 .. Len(l) : l[i - 1] >= l[i]

\* C3 (as stated): applying levels whose length differs from the number of
\* children fails with ConfigMismatch, applying levels with an adjacent pair
\* levels[i-1] >= levels[i] fails with ConfigOrder, and the rejected levels
\* are not installed.
C3_AsStated ==
    AppliedLevels =>
        LET l == last.params[1].levels[1] IN
        /\ Len(l) # children =>
              last.error = ConfigMismatch /\ levels # Some(l)
        /\ NotAscending(l) =>
              last.error = ConfigOrder /\ levels # Some(l)

\* C3 (amended): applying levels whose length differs from the number of
\* children fails with ConfigMismatch; applying levels of the right length
\* with an adjacent pair levels[i-1] >= levels[i] fails with ConfigOrder; in
\* both cases the rejected levels are not installed.
C3_LevelsValidated ==
    AppliedLevels =>
        LET l == last.params[1].levels[1] IN
        /\ Len(l) # children =>
              last.error = ConfigMismatch /\ levels # Some(l)
        /\ (Len(l) = children /\ NotAscending(l)) =>
              last.error = ConfigOrder /\ levels # Some(l)

\* A traversal of a node without fixed params read levels <<10, 10, 20>> for
\* its three children, failed with ConfigOrder and kept its earlier levels.
C3_Witness ==
    /\ last.op = "_render" /\ AppliedLevels
    /\ last.params[1].levels = Some(<< 10, 10, 20 >>)
    /\ children = 3
    /\ last.error = ConfigOrder
    /\ levels = Some(<< 10, 200, 400 >>)

\* Indices (from 0) of the levels that are not above size.
NotAbove(l, size) == {i \in 0 .. Len(l) - 1 : l[i + 1] <= size}

C5_OutsideOuterRadiusTraversesNothing ==
    (Completed(last) /\ last.outer = Some(FALSE)) =>
        /\ last.rendered = <<>>
        /\ ~last.lod
        /\ last.inner = None /\ last.frustum = None /\ last.size = None

\* A node with levels and children failed the outer-radius test.
C5_Witness ==
    /\ Completed(last) /\ last.outer = Some(FALSE)
    /\ levels # None /\ children > 0
    /\ last.rendered = <<>>

C7_IdentityTakesExtents ==
    [][(RenderStep /\ memoLevel = UNINITIALIZED /\ last'.transform.identity
          /\ Completed(last'))
       => /\ viewBox' = Some([min |-> << xmin', ymin', zmin' >>,
                              max |-> << xmax', ymax', zmax' >>])
          /\ ~last'.boxFromPoints /\ ~last'.coordsBuilt
          /\ memoLevel' = FULL]_vars

\* The box was taken from extents whose xmin is above their xmax (set by
\* setXMin), as they are.
C7_Witness ==
    /\ Completed(last) /\ last.boxDirect /\ last.transform.identity
    /\ xmin > xmax
    /\ viewBox = Some([min |-> << xmin, ymin, zmin >>,
                       max |-> << xmax, ymax, zmax >>])
    /\ memoLevel = FULL

\* What C8 says of the second of two consecutive completed traversals, both
\* under a non-identity static transform with instancing inactive.
SecondStaticTraversal ==
    /\ RenderStep
    /\ Completed(last) /\ ~last.transform.identity /\ last.transform.fixed
    /\ ~last.instancing
    /\ Completed(last') /\ ~last'.transform.identity /\ last'.transform.fixed
    /\ ~last'.instancing

MemoisedAndUnchanged ==
    /\ memoLevel' = FULL
    /\ objectCoords' = None
    /\ viewBox' = viewBox

\* C8 (as stated): for nodes with fixed and with non-fixed params alike, after
\* the second of two consecutive traversals under a non-identity static
\* transform without instancing, the memo level is 2, the corners are
\* discarded and the view box is the one the first traversal left.
C8_AsStated ==
    [][SecondStaticTraversal => MemoisedAndUnchanged]_vars

\* C8 (amended): the same, for a node with fixed params that was below memo
\* level 2 before the first of the two traversals (as after construction or a
\* setter call), so that the first traversal rebuilt the box from the corners.
C8_StaticBoxMemoised ==
    [][(fixedParams /\ SecondStaticTraversal /\ last.boxFromPoints)
       => MemoisedAndUnchanged]_vars

\* The second traversal of a node with fixed params: nothing was rebuilt, the
\* box is the one of the corners under the static matrix.
C8_Witness ==
    /\ fixedParams /\ Completed(last)
    /\ ~last.transform.identity /\ last.transform.fixed /\ ~last.instancing
    /\ ~last.coordsBuilt /\ ~last.boxFromPoints /\ ~last.boxDirect
    /\ memoLevel = FULL /\ objectCoords = None
    /\ viewBox = Some(TransformedBox(last.transform.matrix,
                                     ObjectCoords(Extents)))

\* C9: a node that is not at memo level 2 (as after construction or a setter
\* call) and is traversed under a non-identity, non-static transform has its
\* view box rebuilt from the corners in that traversal and is not at memo
\* level 2 after it; so under such transforms alone every traversal rebuilds
\* the box and level 2 is never reached.
C9_DynamicTransformNeverMemoised ==
    [][(RenderStep /\ memoLevel # FULL /\ Completed(last')
          /\ ~last'.transform.identity /\ ~last'.transform.fixed)
       => /\ memoLevel' # FULL
          /\ last'.boxFromPoints
          /\ objectCoords' # None
          /\ viewBox' = Some(TransformedBox(last'.transform.matrix,
                                            objectCoords'[1]))]_vars

\* A traversal at memo level 1 under a non-static transform: the corners
\* were kept from an earlier traversal, the box was rebuilt.
C9_Witness ==
    /\ Completed(last)
    /\ ~last.transform.identity /\ ~last.transform.fixed
    /\ ~last.coordsBuilt /\ last.boxFromPoints
    /\ memoLevel = PARTIAL

\* C10: a traversal that starts at memo level 2 runs to its end, builds no
\* corners and no box, and leaves the view box, the corners and the memo
\* level as they were, whatever the transform and the instancing state are.
C10_FullIsFrozen ==
    [][(RenderStep /\ memoLevel = FULL)
       => /\ Completed(last')
          /\ ~last'.coordsBuilt /\ ~last'.boxDirect /\ ~last'.boxFromPoints
          /\ ~last'.init
          /\ viewBox' = viewBox
          /\ objectCoords' = objectCoords
          /\ memoLevel' = FULL]_vars

\* A traversal at level 2 under a non-identity, non-static transform with
\* instancing active: the box is still the one taken from the extents.
C10_Witness ==
    /\ Completed(last) /\ memoLevel = FULL
    /\ ~last.coordsBuilt /\ ~last.boxDirect /\ ~last.boxFromPoints
    /\ ~last.transform.identity /\ ~last.transform.fixed /\ last.instancing
    /\ viewBox = Some(ExtentsBox(Extents))
    /\ viewBox # Some(TransformedBox(last.transform.matrix,
                                     ObjectCoords(Extents)))


\* C11: every traversal of a node without fixed params calls _init with the
\* params read from the dynamic source and so installs their extents (and
\* checks their levels), under every transform and after every earlier
\* traversal, one under an identity transform included.
C11_DynamicParamsRereadEveryTraversal ==
    [][(RenderStep /\ ~fixedParams)
       => /\ last'.init
          /\ last'.params # None
          /\ (Completed(last') =>
                /\ xmin' = OrZero(last'.params[1].xmin)
                /\ xmax' = OrZero(last'.params[1].xmax))]_vars

\* C12: whenever the node has levels, there is one level per child and the
\* levels are strictly ascending.
C12_LevelsMatchChildrenAscending ==
    levels # None =>
        /\ Len(levels[1]) = children
        /\ \A i \in 2 .. Len(levels[1]) : levels[1][i - 1] < levels[1][i]

\* A traversal of a node without fixed params installed the levels
\* 10, 200, 400, 600 for its four children.
C12_Witness ==
    /\ ~fixedParams /\ Completed(last) /\ last.init
    /\ last.params[1].levels = Some(<< 10, 200, 400, 600 >>)
    /\ levels = Some(<< 10, 200, 400, 600 >>)
    /\ children = 4

\* The visibility tests let the traversal through to the children.
Visible(l) ==
    /\ Completed(l)
    /\ l.outer = Some(TRUE) /\ l.inner = Some(TRUE)
    /\ l.frustum \in {Some(SceneJS_math_INSIDE_FRUSTUM),
                      Some(SceneJS_math_INTERSECT_FRUSTUM)}

\* C13: when the configuration last applied to the node has no levels, a
\* traversal that passes both radius tests and is not outside the frustum
\* traverses all children and selects no single child, also when an earlier
\* configuration had levels.  Stated for the operations that apply the
\* configuration: a traversal that applies one without levels, and any
\* traversal of a node constructed from one without levels.
C13_NoLevelsPlainGate ==
    /\ (Visible(last) /\ last.init /\ last.params[1].levels = None) =>
          /\ ~last.lod
          /\ last.rendered = [i \in 1 .. children |-> i - 1]
    /\ (last.op = "BoundingBox" /\ last.init /\ last.params[1].levels = None) =>
          levels = None


\* C14: a traversal that brings the memo level to 2 runs under a static
\* transform with instancing inactive, whichever way level 2 is reached, the
\* short-cut under an identity transform included.
C14_FullOnlyWhenStaticNoInstancing ==
    [][(RenderStep /\ memoLevel # FULL /\ memoLevel' = FULL)
       => (last'.transform.fixed /\ ~last'.instancing)]_vars

\* The memo level at line 317 of the traversal that this step is.
LevelAtBoxStep ==
    IF memoLevel = UNINITIALIZED
    THEN IF last'.transform.identity THEN FULL
         ELSE IF fixedParams THEN PARTIAL ELSE UNINITIALIZED
    ELSE memoLevel

\* The corners line 319 transforms in the traversal that this step is.
CornersAtBoxStep ==
    IF memoLevel = UNINITIALIZED /\ ~last'.transform.identity
    THEN Some(<< << xmin', ymin', zmin' >>, << xmax', ymin', zmin' >>,
                 << xmax', ymax', zmin' >>, << xmin', ymax', zmin' >>,
                 << xmin', ymin', zmax' >>, << xmax', ymin', zmax' >>,
                 << xmax', ymax', zmax' >>, << xmin', ymax', zmax' >> >>)
    ELSE objectCoords

\* C15: a completed traversal that is at memo level 1 at line 317 ends at
\* level 2 with the corners discarded if the transform is static and
\* instancing is inactive, and otherwise ends at level 1 with its corners.
C15_PartialAdvancesIffStaticNoInstancing ==
    [][(RenderStep /\ Completed(last') /\ LevelAtBoxStep = PARTIAL)
       => IF last'.transform.fixed /\ ~last'.instancing
          THEN memoLevel' = FULL /\ objectCoords' = None
          ELSE memoLevel' = PARTIAL /\ objectCoords' # None
               /\ objectCoords' = CornersAtBoxStep]_vars

\* A traversal under a static transform with instancing active ended at
\* level 1 with its corners.
C15_Witness ==
    /\ Completed(last) /\ last.boxFromPoints
    /\ last.transform.fixed /\ last.instancing
    /\ memoLevel = PARTIAL /\ objectCoords # None

\* What C16 says of a completed traversal that starts at memo level 0 under
\* a non-identity transform.
StartsUninitializedTransformed ==
    /\ RenderStep /\ Completed(last')
    /\ memoLevel = UNINITIALIZED /\ ~last'.transform.identity

CornersThenPartial ==
    /\ last'.coordsBuilt /\ last'.boxFromPoints
    /\ viewBox' = Some(TransformedBox(last'.transform.matrix,
                                      CornersAtBoxStep[1]))
    /\ memoLevel' \in {PARTIAL, FULL}
    /\ memoLevel' = PARTIAL => objectCoords' = CornersAtBoxStep

\* C16 (as stated): for fixed and non-fixed params alike, such a traversal
\* builds the corners of the current extents, rebuilds the box from them and
\* ends at level 1 or 2, never at level 0.
C16_AsStated ==
    [][StartsUninitializedTransformed => CornersThenPartial]_vars

\* C16 (amended): the same, for nodes with fixed params only.
C16_CornersThenPartial ==
    [][(fixedParams /\ StartsUninitializedTransformed)
       => CornersThenPartial]_vars

\* A node with fixed params went from level 0 to level 1 in one traversal
\* under a non-static transform.
C16_Witness ==
    /\ fixedParams /\ Completed(last)
    /\ last.coordsBuilt /\ last.boxFromPoints
    /\ ~last.transform.identity /\ ~last.transform.fixed
    /\ memoLevel = PARTIAL
    /\ objectCoords = Some(ObjectCoords(Extents))


\* C17: in a completed traversal that passes both radius tests, a box outside
\* the frustum traverses no child, and a box inside or intersecting it
\* traverses all children when the node has no levels; every completed
\* traversal ends in one of three outcomes: no child, one child given by its
\* index, or all children in order.
C17_OneOfThreeOutcomes ==
    Completed(last) =>
        /\ (last.outer = Some(TRUE) /\ last.inner = Some(TRUE)
              /\ last.frustum = Some(SceneJS_math_OUTSIDE_FRUSTUM))
           => last.rendered = <<>> /\ ~last.lod
        /\ (Visible(last) /\ levels = None)
           => last.rendered = [i \in 1 .. children |-> i - 1] /\ ~last.lod
        /\ \/ last.rendered = <<>>
           \/ \E i \in 0 .. children - 1 : last.lod /\ last.rendered = << i >>
           \/ ~last.lod /\ last.rendered = [i \in 1 .. children |-> i - 1]

\* A node with levels and four children passed both radius tests and was
\* found outside the frustum: nothing was traversed.
C17_Witness ==
    /\ Completed(last)
    /\ last.outer = Some(TRUE) /\ last.inner = Some(TRUE)
    /\ last.frustum = Some(SceneJS_math_OUTSIDE_FRUSTUM)
    /\ levels # None /\ children = 4
    /\ last.rendered = <<>>

\* The value of field f of a setBoundary argument: 0 when absent or falsy.
FieldOrZero(f) == IF f = None \/ f = Some(0) THEN 0 ELSE f[1]

\* C18: a setter builds no corners and no box.  A single-extent setter
\* changes the named extent and the memo level only; setBoundary changes the
\* six extents (an absent or falsy field giving 0) and the memo level only.
\* The levels, the corners and the view box are as before.
C18_SettersOnlySetExtents ==
    [][SetterStep
       => /\ UNCHANGED << levels, objectCoords, viewBox, children, fixedParams >>
          /\ ~last'.coordsBuilt /\ ~last'.boxDirect /\ ~last'.boxFromPoints
          /\ ~last'.init
          /\ last'.op \notin {"setXMin", "setBoundary"} => xmin' = xmin
          /\ last'.op \notin {"setYMin", "setBoundary"} => ymin' = ymin
          /\ last'.op \notin {"setZMin", "setBoundary"} => zmin' = zmin
          /\ last'.op \notin {"setXMax", "setBoundary"} => xmax' = xmax
          /\ last'.op \notin {"setYMax", "setBoundary"} => ymax' = ymax
          /\ last'.op \notin {"setZMax", "setBoundary"} => zmax' = zmax
          /\ last'.op = "setXMin" => xmin' \in ExtentVals
          /\ last'.op = "setYMin" => ymin' \in ExtentVals
          /\ last'.op = "setZMin" => zmin' \in ExtentVals
          /\ last'.op = "setXMax" => xmax' \in ExtentVals
          /\ last'.op = "setYMax" => ymax' \in ExtentVals
          /\ last'.op = "setZMax" => zmax' \in ExtentVals
          /\ last'.op = "setBoundary" =>
                \E b \in Boundaries :
                   /\ xmin' = FieldOrZero(b.xmin) /\ ymin' = FieldOrZero(b.ymin)
                   /\ zmin' = FieldOrZero(b.zmin) /\ xmax' = FieldOrZero(b.xmax)
                   /\ ymax' = FieldOrZero(b.ymax) /\ zmax' = FieldOrZero(b.zmax)
       ]_vars

\* setBoundary was called with ymin and zmax absent on a node that had
\* corners and a box: they are still there, for the earlier extents.
C18_Witness ==
    /\ last.op = "setBoundary"
    /\ ymin = 0 /\ zmax = 0 /\ ymax = 3
    /\ objectCoords # None /\ viewBox # None
    /\ objectCoords # Some(ObjectCoords(Extents))


\* The memo level is one of the three levels; a node that has just been
\* constructed is at level 0; no traversal transforms absent corners or
\* tests an absent box.
LevelsAndBoxDefined ==
    /\ memoLevel \in {UNINITIALIZED, PARTIAL, FULL}
    /\ (pc = "ready" /\ last.op = "BoundingBox") => memoLevel = UNINITIALIZED
    /\ last.op = "_render" => last.error # TypeError
    /\ Completed(last) => viewBox # None

\* The first traversal of a node runs the block of lines 284-315: it reads the
\* params of a node without fixed params, and unless that fails it builds the
\* corners or takes the box from the extents.
FirstTraversalInitializes ==
    (RenderStep /\ last.op = "BoundingBox") =>
        /\ ~fixedParams => last'.init
        /\ Completed(last') => (last'.coordsBuilt \/ last'.boxDirect)

\* C19: in every reachable state, from the end of construction on, the memo
\* level is 0, 1 or 2; a new node is at level 0, so its first traversal runs
\* the level-0 step and no traversal tests an absent view box.
C19_MemoLevelDefined ==
    []LevelsAndBoxDefined /\ [][FirstTraversalInitializes]_vars

\* The first traversal of a node with fixed params (no setter was called, the
\* corners were built): it ran at level 0 and left a view box.
C19_Witness ==
    /\ fixedParams /\ sets = 0
    /\ Completed(last) /\ last.coordsBuilt
    /\ viewBox # None

\* C20: a traversal that rebuilds the view box from the corners finds them
\* present, and they are the eight corners of the node's current extents:
\* the box it leaves is their box under the current matrix, and the corners
\* it keeps are these.
C20_CornersPresentAndCurrent ==
    last.op = "_render" =>
        /\ last.error # TypeError
        /\ last.boxFromPoints =>
              /\ viewBox = Some(TransformedBox(last.transform.matrix,
                                               ObjectCoords(Extents)))
              /\ objectCoords # None =>
                    objectCoords = Some(ObjectCoords(Extents))

\* After a setter call, a traversal under a non-identity transform rebuilt
\* the corners for the new extents and the box from them, and kept them.
C20_Witness ==
    /\ Completed(last) /\ sets = 1
    /\ last.coordsBuilt /\ last.boxFromPoints
    /\ memoLevel = PARTIAL
    /\ objectCoords = Some(ObjectCoords(Extents))
    /\ viewBox = Some(TransformedBox(last.transform.matrix,
                                     ObjectCoords(Extents)))

====
